---- MODULE Spec2Model ----
(***************************************************************************)
(* The HTLCMultiSig escrow contract                                        *)
(* (src/HTLC/htlc-multisig/contracts/HTLCMultiSig.sol) as a state machine. *)
(*                                                                         *)
(* One action per external function; an action is one whole transaction:   *)
(* the require checks in source order, the storage write, the outbound     *)
(* transfer and the event.  A transaction that reverts leaves the storage, *)
(* the balances and the event log as they were; only `result`, the         *)
(* caller's view of the last call, records it.                             *)
(*                                                                         *)
(* Hashes are symbolic and injective (sha256, keccak256 and the            *)
(* "\x19Ethereum Signed Message" prefix are collision free here).  A       *)
(* signature is the pair (signing key, digest signed); recovering it       *)
(* against another digest yields an address nobody controls.               *)
(***************************************************************************)
EXTENDS Integers, Sequences, FiniteSets, TLC

-----------------------------------------------------------------------------
(* Bounds of the model *)

MaxTime == 2
MaxLockTime == 1
MaxAmount == 2
\* width of the model's unsigned integers: uint256 is modelled as uint(UintBits)
UintBits == 3

UintMax == 2 ^ UintBits - 1

-----------------------------------------------------------------------------
(* Identities *)

ZeroAddress == "0x0"
\* externally owned accounts: they can sign and always accept a payment
EOA == {"A", "B", "C", "D"}
\* a contract account: it cannot sign, and its receive hook may revert
ContractAddr == {"K"}
\* what ecrecover yields for a signature made over another digest
Garbage == "G"
Address == {ZeroAddress} \cup EOA \cup ContractAddr

TradeId == {"t1", "t2"}
Preimage == {"p1", "p2"}

Sha256(p) == <<"sha256", p>>
ZeroBytes32 == <<"bytes32", "0">>

\* Byte strings are sequences of cells, a cell being 12 or 20 bytes: the 20
\* bytes of an address, the high 12 and the low 20 bytes of a 32-byte word.
\* A bytes32 value named by an address is that address widened with zeros.
AddressBytes(r) == <<"low20", r>>
Word(x) == IF x \in Address THEN <<<<"high12", "0">>, AddressBytes(x)>>
           ELSE <<<<"high12", x>>, <<"low20", x>>>>

\* faulty variant: abi.encode, which widens the address to 32 bytes
PackedRecipientPadded(id, r) == Word(id) \o Word(r)

\* faulty variant: the trade id is left out of the message
PackedRecipientNoTradeId(id, r) == <<AddressBytes(r)>>

\* abi.encodePacked(_tradeId, _preimage): bytes32 ++ bytes32, 64 bytes
PackedPreimage(id, p) == Word(id) \o Word(p)
\* abi.encodePacked(_tradeId, _recipient): bytes32 ++ address, 52 bytes
PackedRecipient(id, r) == Word(id) \o <<AddressBytes(r)>>
Keccak256(bytes) == <<"keccak256">> \o bytes
ToEthSignedMessageHash(h) == <<"\\x19Ethereum Signed Message:\\n32">> \o h

PreimageDigest(id, p) == ToEthSignedMessageHash(Keccak256(PackedPreimage(id, p)))
RecipientDigest(id, r) == ToEthSignedMessageHash(Keccak256(PackedRecipient(id, r)))

-----------------------------------------------------------------------------
(* Signatures *)

Sign(k, digest) == [wellFormed |-> TRUE, signer |-> k, digest |-> digest]
Malformed == [wellFormed |-> FALSE, signer |-> ZeroAddress, digest |-> <<>>]

\* faulty variant: tryRecover, whose error is ignored
RecoverNeverReverts(sig) == FALSE

\* ECDSA.recover reverts on a malformed signature
RecoverReverts(sig) == ~sig.wellFormed
Recover(hash, sig) == IF sig.digest = hash THEN sig.signer ELSE Garbage

-----------------------------------------------------------------------------
(* The front end: types/order.ts *)

\* JavaScript's undefined, and what `x || y`, `x?.f` and a condition make of it
Undefined == "<undefined>"
Null == "<null>"
Truthy(x) == x \notin {Undefined, Null, ""}
Or(x, y) == IF Truthy(x) THEN x ELSE y
\* o?.f and o.f of an object given as a record; a missing object is the
\* record of no fields
Absent == [f \in {} |-> Undefined]
Get(o, f) == IF f \in DOMAIN o THEN o[f] ELSE Undefined

\* enum OrderStatus
OrderStatus == {"PENDING", "ACCEPTED", "PROCESSING", "DELIVERED", "COMPLETED", "CANCELLED"}
\* enum OrderStageStatus
StagePending == "pending"
StageProcessing == "processing"
StageCompleted == "completed"

\* the stage_id of each entry; title, description and icon are copied along
\* with it and left out here
ORDER_STAGES ==
    <<[stage_id |-> "agent_match"], [stage_id |-> "order_created"],
      [stage_id |-> "merchant_accepted"], [stage_id |-> "order_delivered"],
      [stage_id |-> "order_confirmed"], [stage_id |-> "on_chain"]>>

\* {...ORDER_STAGES[i], status, timestamp}; i counts from 1 here
Stage(i, status, timestamp) ==
    [stage_id |-> ORDER_STAGES[i].stage_id, status |-> status, timestamp |-> timestamp]

paymentCompleted(o) == Get(o.payment_info, "payment_status") = "paid"
accepted(o) == o.status # "PENDING"
delivered(o) == o.status \in {"DELIVERED", "COMPLETED"}
completed(o) == o.status = "COMPLETED"
\* order.metadata?.blockchain_tx_hashes || {}
blockchainTxs(o) ==
    IF "blockchain_tx_hashes" \in DOMAIN o.metadata
    THEN o.metadata.blockchain_tx_hashes ELSE Absent

\* faulty variant: the hashes alone decide, whatever the order's status
hasOnChainAnyStatus(o) ==
    Truthy(Or(Get(blockchainTxs(o), "completed"),
              Or(Get(blockchainTxs(o), "delivery"), Get(blockchainTxs(o), "payment"))))

hasOnChain(o) ==
    /\ completed(o)
    /\ Truthy(Or(Get(blockchainTxs(o), "completed"),
                 Or(Get(blockchainTxs(o), "delivery"), Get(blockchainTxs(o), "payment"))))

mapOrderStatusToStages(o) ==
    <<Stage(1, StageCompleted, o.created_at),
      Stage(2, IF paymentCompleted(o) THEN StageCompleted ELSE StagePending,
            Or(Get(o.payment_info, "paid_at"), Null)),
      Stage(3, IF accepted(o) THEN StageCompleted ELSE StagePending,
            Or(o.accepted_at, Null)),
      Stage(4, IF delivered(o) THEN StageCompleted
               ELSE IF accepted(o) THEN StageProcessing ELSE StagePending,
            Or(o.delivered_at, Null)),
      Stage(5, IF completed(o) THEN StageCompleted
               ELSE IF delivered(o) THEN StagePending ELSE StagePending,
            Or(o.completed_at, Null)),
      Stage(6, IF hasOnChain(o) THEN StageCompleted
               ELSE IF completed(o) THEN StageProcessing ELSE StagePending,
            IF completed(o) THEN Or(o.completed_at, Null) ELSE Null)>>

\* an order as the back end sends it: only the fields the timeline reads
NewOrder(status, payment_info, stamped, metadata) ==
    [status |-> status, payment_info |-> payment_info, metadata |-> metadata,
     created_at |-> "T0",
     accepted_at |-> IF stamped THEN "T1" ELSE Undefined,
     delivered_at |-> IF stamped THEN "T2" ELSE Null,
     completed_at |-> IF stamped THEN "T3" ELSE Undefined]

NoOrder == NewOrder("PENDING", Absent, FALSE, Absent)

-----------------------------------------------------------------------------
(* State *)

VARIABLES
    now,        \* block.timestamp
    trades,     \* mapping(bytes32 => Trade)
    balance,    \* address(this).balance
    received,   \* ether each address has received from the contract
    log,        \* the events emitted, in order
    result,     \* the last call and how it ended: "ok" or the revert reason,
                \* and the signers it recovered, if it came to that
    pending,    \* the transactions sent but not yet mined (the race of SpecRace)
    outcomes,   \* how the mined ones of them ended, in the order they ran
    guard,      \* ReentrancyGuard._status
    frame,      \* the release call whose transfer is under way, if any
    inner,      \* the last call made from within a transfer, and how it ended
    order,      \* the order handed to the front end's timeline
    stages      \* what mapOrderStatusToStages returned for it, <<>> before the call

\* the state of the contract and of its callers
ledger == <<now, trades, balance, received, log, result>>
\* the transactions in flight
mempool == <<pending, outcomes>>
\* the call stack within one transaction
stack == <<guard, frame, inner>>
\* the front end's order timeline
timeline == <<order, stages>>

vars == <<now, trades, balance, received, log, result, pending, outcomes,
          guard, frame, inner, order, stages>>

NoTrade == [buyer |-> ZeroAddress, seller |-> ZeroAddress, arbiter |-> ZeroAddress,
            amount |-> 0, hashLock |-> ZeroBytes32, timelock |-> 0,
            status |-> "Uninitialized"]

NoCall == [op |-> "none", id |-> "t1", caller |-> ZeroAddress, err |-> "ok",
           signers |-> <<>>]

\* no transfer under way
NoFrame == [op |-> "none", id |-> "t1", caller |-> ZeroAddress, to |-> ZeroAddress,
            status |-> "Uninitialized", signers |-> <<>>]
NoInner == [op |-> "none", id |-> "t1", err |-> "ok"]

Init ==
    /\ now = 0
    /\ trades = [id \in TradeId |-> NoTrade]
    /\ balance = 0
    /\ received = [a \in Address |-> 0]
    /\ log = <<>>
    /\ result = NoCall
    /\ pending = {}
    /\ outcomes = <<>>
    /\ guard = "NOT_ENTERED"
    /\ frame = NoFrame
    /\ inner = NoInner
    /\ order = NoOrder
    /\ stages = <<>>

Call(op, id, caller, err, signers) ==
    [op |-> op, id |-> id, caller |-> caller, err |-> err, signers |-> signers]

\* a reverted transaction: nothing but the caller's view changes
Reverted(op, id, caller, err, signers) ==
    /\ result' = Call(op, id, caller, err, signers)
    /\ UNCHANGED <<now, trades, balance, received, log>>

\* the reverts raised before any signature is recovered
BeforeRecover ==
    {"Invalid status", "Invalid preimage", "Invalid recipient", "ECDSAInvalidSignature"}

\* payable(to).transfer(amount): an EOA always takes it; a contract's receive
\* hook decides (accept), within the 2300 gas stipend
TransferOk(to, accept) == to \notin ContractAddr \/ accept

-----------------------------------------------------------------------------
(* lock *)

\* faulty variant: the trade id is not checked
LockErrorNoDuplicateCheck(t, value, seller, arbiter, lockTime, time) ==
    IF ~(value > 0) THEN "Amount must be greater than 0"
    ELSE IF ~(seller # ZeroAddress /\ arbiter # ZeroAddress) THEN "Invalid addresses"
    ELSE IF time + lockTime > UintMax THEN "Panic(0x11)"
    ELSE "ok"

\* faulty variant: the addresses are checked before the trade id
LockErrorAddressesFirst(t, value, seller, arbiter, lockTime, time) ==
    IF ~(value > 0) THEN "Amount must be greater than 0"
    ELSE IF ~(seller # ZeroAddress /\ arbiter # ZeroAddress) THEN "Invalid addresses"
    ELSE IF t.status # "Uninitialized" THEN "Trade ID already exists"
    ELSE IF time + lockTime > UintMax THEN "Panic(0x11)"
    ELSE "ok"

\* faulty variant: the trade id is checked before the amount
LockErrorDuplicateFirst(t, value, seller, arbiter, lockTime, time) ==
    IF t.status # "Uninitialized" THEN "Trade ID already exists"
    ELSE IF ~(value > 0) THEN "Amount must be greater than 0"
    ELSE IF ~(seller # ZeroAddress /\ arbiter # ZeroAddress) THEN "Invalid addresses"
    ELSE IF time + lockTime > UintMax THEN "Panic(0x11)"
    ELSE "ok"

\* faulty variant: only the seller is checked against address(0)
LockErrorSellerOnly(t, value, seller, arbiter, lockTime, time) ==
    IF ~(value > 0) THEN "Amount must be greater than 0"
    ELSE IF t.status # "Uninitialized" THEN "Trade ID already exists"
    ELSE IF ~(seller # ZeroAddress) THEN "Invalid addresses"
    ELSE IF time + lockTime > UintMax THEN "Panic(0x11)"
    ELSE "ok"

\* the require checks of lock, in source order, then the checked addition
\* faulty variant: the sum is computed in an unchecked block
LockErrorUnchecked(t, value, seller, arbiter, lockTime, time) ==
    IF ~(value > 0) THEN "Amount must be greater than 0"
    ELSE IF t.status # "Uninitialized" THEN "Trade ID already exists"
    ELSE IF ~(seller # ZeroAddress /\ arbiter # ZeroAddress) THEN "Invalid addresses"
    ELSE "ok"

LockError(t, value, seller, arbiter, lockTime, time) ==
    IF ~(value > 0) THEN "Amount must be greater than 0"
    ELSE IF t.status # "Uninitialized" THEN "Trade ID already exists"
    ELSE IF ~(seller # ZeroAddress /\ arbiter # ZeroAddress) THEN "Invalid addresses"
    ELSE IF time + lockTime > UintMax THEN "Panic(0x11)"
    ELSE "ok"

\* faulty variant: the timelock is the bare duration, not a point in time
NewTradeRelativeTimelock(sender, seller, arbiter, value, hashLock, lockTime, time) ==
    [buyer |-> sender, seller |-> seller, arbiter |-> arbiter, amount |-> value,
     hashLock |-> hashLock, timelock |-> lockTime, status |-> "Locked"]

NewTrade(sender, seller, arbiter, value, hashLock, lockTime, time) ==
    [buyer |-> sender, seller |-> seller, arbiter |-> arbiter, amount |-> value,
     hashLock |-> hashLock, timelock |-> time + lockTime, status |-> "Locked"]

LockedEvent(id, t) ==
    [name |-> "Locked", tradeId |-> id, buyer |-> t.buyer, seller |-> t.seller,
     amount |-> t.amount, hashLock |-> t.hashLock, timelock |-> t.timelock]

Lock(id, sender, seller, arbiter, hashLock, lockTime, value) ==
    LET err == LockError(trades[id], value, seller, arbiter, lockTime, now)
        t == NewTrade(sender, seller, arbiter, value, hashLock, lockTime, now)
    IN  IF err # "ok"
        THEN Reverted("lock", id, sender, err, <<>>)
        ELSE /\ trades' = [trades EXCEPT ![id] = t]
             /\ balance' = balance + value
             /\ log' = Append(log, LockedEvent(id, t))
             /\ result' = Call("lock", id, sender, "ok", <<>>)
             /\ UNCHANGED <<now, received>>

-----------------------------------------------------------------------------
(* The terminal transition shared by the three release functions: the status
   write, then the transfer of trade.amount, then the event.  It is reached
   only when the transfer goes through: a transfer that reverts undoes the
   status write with the rest of the transaction (see the Outcome operators). *)

\* faulty variant: the event is emitted before and after the transfer
ReleaseEmitsTwice(op, id, caller, status, to, event, signers) ==
    /\ trades' = [trades EXCEPT ![id].status = status]
    /\ balance' = balance - trades[id].amount
    /\ received' = [received EXCEPT ![to] = @ + trades[id].amount]
    /\ log' = Append(Append(log, event), event)
    /\ result' = Call(op, id, caller, "ok", signers)
    /\ UNCHANGED now

\* faulty variant: the record is deleted once it is paid
ReleaseDeletesTrade(op, id, caller, status, to, event, signers) ==
    /\ trades' = [trades EXCEPT ![id] = NoTrade]
    /\ balance' = balance - trades[id].amount
    /\ received' = [received EXCEPT ![to] = @ + trades[id].amount]
    /\ log' = Append(log, event)
    /\ result' = Call(op, id, caller, "ok", signers)
    /\ UNCHANGED now

\* faulty variant: the status is written to every Locked trade
ReleaseEveryLockedTrade(op, id, caller, status, to, event, signers) ==
    /\ trades' = [i \in TradeId |->
                    IF trades[i].status = "Locked"
                    THEN [trades[i] EXCEPT !.status = status] ELSE trades[i]]
    /\ balance' = balance - trades[id].amount
    /\ received' = [received EXCEPT ![to] = @ + trades[id].amount]
    /\ log' = Append(log, event)
    /\ result' = Call(op, id, caller, "ok", signers)
    /\ UNCHANGED now

\* faulty variant: the status write is left out
ReleaseNoStatusWrite(op, id, caller, status, to, event, signers) ==
    /\ balance' = balance - trades[id].amount
    /\ received' = [received EXCEPT ![to] = @ + trades[id].amount]
    /\ log' = Append(log, event)
    /\ result' = Call(op, id, caller, "ok", signers)
    /\ UNCHANGED <<now, trades>>

Release(op, id, caller, status, to, event, signers) ==
    /\ trades' = [trades EXCEPT ![id].status = status]
    /\ balance' = balance - trades[id].amount
    /\ received' = [received EXCEPT ![to] = @ + trades[id].amount]
    /\ log' = Append(log, event)
    /\ result' = Call(op, id, caller, "ok", signers)
    /\ UNCHANGED now

WithdrawnEvent(id, recipient, method) ==
    [name |-> "Withdrawn", tradeId |-> id, recipient |-> recipient, method |-> method]

RefundedEvent(id, recipient) ==
    [name |-> "Refunded", tradeId |-> id, recipient |-> recipient]

-----------------------------------------------------------------------------
(* withdrawWithPreimage *)

HasBuyer(t, signer1, signer2) == signer1 = t.buyer \/ signer2 = t.buyer
HasSeller(t, signer1, signer2) == signer1 = t.seller \/ signer2 = t.seller

\* faulty variant: the preimage path closes when the timelock is reached
WithdrawErrorBeforeExpiry(t, id, preimage, sig1, sig2) ==
    IF t.status # "Locked" THEN "Invalid status"
    ELSE IF now >= t.timelock THEN "Timelock expired"
    ELSE IF Sha256(preimage) # t.hashLock THEN "Invalid preimage"
    ELSE IF RecoverReverts(sig1) \/ RecoverReverts(sig2) THEN "ECDSAInvalidSignature"
    ELSE LET messageHash == PreimageDigest(id, preimage)
             signer1 == Recover(messageHash, sig1)
             signer2 == Recover(messageHash, sig2)
         IN  IF ~(HasBuyer(t, signer1, signer2) /\ HasSeller(t, signer1, signer2))
             THEN "Missing required signatures from buyer and seller"
             ELSE "ok"

\* faulty variant: the preimage is checked before the status
WithdrawErrorPreimageFirst(t, id, preimage, sig1, sig2) ==
    IF Sha256(preimage) # t.hashLock THEN "Invalid preimage"
    ELSE IF t.status # "Locked" THEN "Invalid status"
    ELSE IF RecoverReverts(sig1) \/ RecoverReverts(sig2) THEN "ECDSAInvalidSignature"
    ELSE LET messageHash == PreimageDigest(id, preimage)
             signer1 == Recover(messageHash, sig1)
             signer2 == Recover(messageHash, sig2)
         IN  IF ~(HasBuyer(t, signer1, signer2) /\ HasSeller(t, signer1, signer2))
             THEN "Missing required signatures from buyer and seller"
             ELSE "ok"

\* the checks before the status write, in source order
WithdrawError(t, id, preimage, sig1, sig2) ==
    IF t.status # "Locked" THEN "Invalid status"
    ELSE IF Sha256(preimage) # t.hashLock THEN "Invalid preimage"
    ELSE IF RecoverReverts(sig1) \/ RecoverReverts(sig2) THEN "ECDSAInvalidSignature"
    ELSE LET messageHash == PreimageDigest(id, preimage)
             signer1 == Recover(messageHash, sig1)
             signer2 == Recover(messageHash, sig2)
         IN  IF ~(HasBuyer(t, signer1, signer2) /\ HasSeller(t, signer1, signer2))
             THEN "Missing required signatures from buyer and seller"
             ELSE "ok"

\* how the whole call ends: the checks, then the transfer to the seller
WithdrawOutcome(t, id, preimage, sig1, sig2, accept) ==
    LET err == WithdrawError(t, id, preimage, sig1, sig2)
    IN  IF err # "ok" THEN err
        ELSE IF ~TransferOk(t.seller, accept) THEN "Transfer failed"
        ELSE "ok"

\* faulty variant: the payment is made with send, whose result is ignored
WithdrawIgnoresFailedSend(id, caller, preimage, sig1, sig2, accept) ==
    LET t == trades[id]
        out == WithdrawOutcome(t, id, preimage, sig1, sig2, accept)
        messageHash == PreimageDigest(id, preimage)
        signers == IF out \in BeforeRecover THEN <<>>
                   ELSE <<Recover(messageHash, sig1), Recover(messageHash, sig2)>>
    IN  IF out = "Transfer failed"
        THEN /\ trades' = [trades EXCEPT ![id].status = "Completed"]
             /\ result' = Call("withdrawWithPreimage", id, caller, out, signers)
             /\ UNCHANGED <<now, balance, received, log>>
        ELSE IF out # "ok"
        THEN Reverted("withdrawWithPreimage", id, caller, out, signers)
        ELSE Release("withdrawWithPreimage", id, caller, "Completed", t.seller,
                     WithdrawnEvent(id, t.seller, "Preimage + MultiSig"), signers)

WithdrawWithPreimage(id, caller, preimage, sig1, sig2, accept) ==
    LET t == trades[id]
        out == WithdrawOutcome(t, id, preimage, sig1, sig2, accept)
        messageHash == PreimageDigest(id, preimage)
        signers == IF out \in BeforeRecover THEN <<>>
                   ELSE <<Recover(messageHash, sig1), Recover(messageHash, sig2)>>
    IN  IF out # "ok"
        THEN Reverted("withdrawWithPreimage", id, caller, out, signers)
        ELSE Release("withdrawWithPreimage", id, caller, "Completed", t.seller,
                     WithdrawnEvent(id, t.seller, "Preimage + MultiSig"), signers)

-----------------------------------------------------------------------------
(* resolveDispute *)

\* faulty variant: the comparison with participants[j] is left out
CountsAnySigner(signer, participants, lastSigner) ==
    signer # lastSigner

\* faulty variant: the inner loop stops one short, at j < 2
CountsFirstTwo(signer, participants, lastSigner) ==
    \E j \in 1..2 : signer = participants[j] /\ signer # lastSigner

\* one pass of the outer loop: does signers[i] equal some participants[j]
\* while differing from lastSigner
Counts(signer, participants, lastSigner) ==
    \E j \in 1..3 : signer = participants[j] /\ signer # lastSigner

\* faulty variant: the roles that have signed are counted, not the signers
ValidSignaturesPerRole(t, signer1, signer2) ==
    LET participants == <<t.buyer, t.seller, t.arbiter>>
    IN  Cardinality({j \in 1..3 : participants[j] \in {signer1, signer2}})

\* faulty variant: lastSigner is never updated
ValidSignaturesNoLast(t, signer1, signer2) ==
    LET participants == <<t.buyer, t.seller, t.arbiter>>
        c1 == Counts(signer1, participants, ZeroAddress)
        c2 == Counts(signer2, participants, ZeroAddress)
    IN  (IF c1 THEN 1 ELSE 0) + (IF c2 THEN 1 ELSE 0)

\* validSignatures after the two passes
ValidSignatures(t, signer1, signer2) ==
    LET participants == <<t.buyer, t.seller, t.arbiter>>
        c1 == Counts(signer1, participants, ZeroAddress)
        last1 == IF c1 THEN signer1 ELSE ZeroAddress
        c2 == Counts(signer2, participants, last1)
    IN  (IF c1 THEN 1 ELSE 0) + (IF c2 THEN 1 ELSE 0)

\* faulty variant: the recipient is not checked
ResolveErrorAnyRecipient(t, id, recipient, sig1, sig2) ==
    IF t.status # "Locked" THEN "Invalid status"
    ELSE IF RecoverReverts(sig1) \/ RecoverReverts(sig2) THEN "ECDSAInvalidSignature"
    ELSE LET messageHash == RecipientDigest(id, recipient)
             signer1 == Recover(messageHash, sig1)
             signer2 == Recover(messageHash, sig2)
         IN  IF ~(ValidSignatures(t, signer1, signer2) >= 2)
             THEN "Need 2-of-3 signatures"
             ELSE "ok"

\* the checks before the status write, in source order
ResolveError(t, id, recipient, sig1, sig2) ==
    IF t.status # "Locked" THEN "Invalid status"
    ELSE IF ~(recipient = t.buyer \/ recipient = t.seller) THEN "Invalid recipient"
    ELSE IF RecoverReverts(sig1) \/ RecoverReverts(sig2) THEN "ECDSAInvalidSignature"
    ELSE LET messageHash == RecipientDigest(id, recipient)
             signer1 == Recover(messageHash, sig1)
             signer2 == Recover(messageHash, sig2)
         IN  IF ~(ValidSignatures(t, signer1, signer2) >= 2)
             THEN "Need 2-of-3 signatures"
             ELSE "ok"

\* how the whole call ends: the checks, then the transfer to the recipient
ResolveOutcome(t, id, recipient, sig1, sig2, accept) ==
    LET err == ResolveError(t, id, recipient, sig1, sig2)
    IN  IF err # "ok" THEN err
        ELSE IF ~TransferOk(recipient, accept) THEN "Transfer failed"
        ELSE "ok"

ResolveDispute(id, caller, recipient, sig1, sig2, accept) ==
    LET t == trades[id]
        out == ResolveOutcome(t, id, recipient, sig1, sig2, accept)
        messageHash == RecipientDigest(id, recipient)
        signers == IF out \in BeforeRecover THEN <<>>
                   ELSE <<Recover(messageHash, sig1), Recover(messageHash, sig2)>>
    IN  IF out # "ok"
        THEN Reverted("resolveDispute", id, caller, out, signers)
        ELSE Release("resolveDispute", id, caller, "Completed", recipient,
                     WithdrawnEvent(id, recipient, "Arbitration"), signers)

-----------------------------------------------------------------------------
(* refund *)

\* faulty variant: the status is not checked
RefundErrorNoStatusCheck(t, time) ==
    IF ~(time >= t.timelock) THEN "Timelock not expired"
    ELSE "ok"

\* faulty variant: the timelock is not checked
RefundErrorNoTimelockCheck(t, time) ==
    IF t.status # "Locked" THEN "Invalid status"
    ELSE "ok"

\* faulty variant: the timelock must lie strictly in the past
RefundErrorStrict(t, time) ==
    IF t.status # "Locked" THEN "Invalid status"
    ELSE IF ~(time > t.timelock) THEN "Timelock not expired"
    ELSE "ok"

\* the checks before the status write, in source order
RefundError(t, time) ==
    IF t.status # "Locked" THEN "Invalid status"
    ELSE IF ~(time >= t.timelock) THEN "Timelock not expired"
    ELSE "ok"

\* how the whole call ends: the checks, then the transfer to the buyer
RefundOutcome(t, time, accept) ==
    LET err == RefundError(t, time)
    IN  IF err # "ok" THEN err
        ELSE IF ~TransferOk(t.buyer, accept) THEN "Transfer failed"
        ELSE "ok"

\* faulty variant: only the buyer may ask for the refund
RefundOnlyByBuyer(id, caller, accept) ==
    LET t == trades[id]
        out == IF caller # t.buyer THEN "Not buyer" ELSE RefundOutcome(t, now, accept)
    IN  IF out # "ok"
        THEN Reverted("refund", id, caller, out, <<>>)
        ELSE Release("refund", id, caller, "Refunded", t.buyer,
                     RefundedEvent(id, t.buyer), <<>>)

\* faulty variant: the refund is sent to the seller
RefundPaysSeller(id, caller, accept) ==
    LET t == trades[id]
        out == RefundOutcome(t, now, accept)
    IN  IF out # "ok"
        THEN Reverted("refund", id, caller, out, <<>>)
        ELSE Release("refund", id, caller, "Refunded", t.seller,
                     RefundedEvent(id, t.buyer), <<>>)

\* faulty variant: the payment is made with send, whose result is ignored
RefundIgnoresFailedSend(id, caller, accept) ==
    LET t == trades[id]
        out == RefundOutcome(t, now, accept)
    IN  IF out = "Transfer failed"
        THEN /\ trades' = [trades EXCEPT ![id].status = "Refunded"]
             /\ result' = Call("refund", id, caller, out, <<>>)
             /\ UNCHANGED <<now, balance, received, log>>
        ELSE IF out # "ok"
        THEN Reverted("refund", id, caller, out, <<>>)
        ELSE Release("refund", id, caller, "Refunded", t.buyer,
                     RefundedEvent(id, t.buyer), <<>>)

Refund(id, caller, accept) ==
    LET t == trades[id]
        out == RefundOutcome(t, now, accept)
    IN  IF out # "ok"
        THEN Reverted("refund", id, caller, out, <<>>)
        ELSE Release("refund", id, caller, "Refunded", t.buyer,
                     RefundedEvent(id, t.buyer), <<>>)

-----------------------------------------------------------------------------
(* Time: a later block *)

Tick ==
    /\ now < MaxTime
    /\ now' = now + 1
    /\ UNCHANGED <<trades, balance, received, log, result>>

-----------------------------------------------------------------------------
(* The calls the environment makes *)

Callers == {"A", "D"}
Outsider == "D"
HashLocks == {Sha256("p1")}
OtherTrade(id) == CHOOSE o \in TradeId : o # id

\* what a contract payee's receive hook may do; an EOA has no hook
AcceptChoices(to) == IF to \in ContractAddr THEN BOOLEAN ELSE {TRUE}

\* the signatures offered to a call that verifies against messageHash: each
\* signer's signature over it, and of the kinds asked for: a malformed one,
\* the buyer key's signature made for the other purpose, for the other trade
SigsFor(messageHash, signers, kinds, otherPurpose, otherTrade) ==
    {Sign(k, messageHash) : k \in signers}
        \cup (IF "malformed" \in kinds THEN {Malformed} ELSE {})
        \cup (IF "purpose" \in kinds THEN {Sign("A", otherPurpose)} ELSE {})
        \cup (IF "trade" \in kinds THEN {Sign("A", otherTrade)} ELSE {})

\* parties: the <<sender, seller, arbiter>> triples tried
LockCall(ids, parties, lockTimes, values) ==
    \E id \in ids, p \in parties,
       hashLock \in HashLocks, lockTime \in lockTimes, value \in values :
        Lock(id, p[1], p[2], p[3], hashLock, lockTime, value)

WithdrawCall(ids, preimages, signers, kinds) ==
    \E id \in ids, preimage \in preimages :
        \E sig1, sig2 \in SigsFor(PreimageDigest(id, preimage), signers, kinds,
                                  RecipientDigest(id, trades[id].seller),
                                  PreimageDigest(OtherTrade(id), preimage)) :
            \E accept \in AcceptChoices(trades[id].seller) :
                WithdrawWithPreimage(id, Outsider, preimage, sig1, sig2, accept)

ResolveCall(ids, recipients, signers, kinds) ==
    \E id \in ids, recipient \in recipients :
        \E sig1, sig2 \in SigsFor(RecipientDigest(id, recipient), signers, kinds,
                                  PreimageDigest(id, "p1"),
                                  RecipientDigest(OtherTrade(id), recipient)) :
            \E accept \in AcceptChoices(recipient) :
                ResolveDispute(id, Outsider, recipient, sig1, sig2, accept)

RefundCall(ids) ==
    \E id \in ids, caller \in Callers :
        \E accept \in AcceptChoices(trades[id].buyer) :
            Refund(id, caller, accept)

\* the shapes of principals: three distinct keys, buyer = seller,
\* seller = arbiter (key C is then an outsider), a contract as buyer, a
\* contract as seller, a null seller, a null arbiter
Parties ==
    {<<"A", "B", "C">>, <<"A", "A", "C">>, <<"A", "B", "B">>, <<"K", "B", "C">>,
     <<"A", "K", "C">>, <<"A", ZeroAddress, "C">>, <<"A", "B", ZeroAddress>>}

\* one trade, every shape of principals
Next ==
    \/ /\ LockCall({"t1"}, Parties, {0, MaxLockTime, UintMax}, {0, MaxAmount})
       /\ UNCHANGED <<mempool, stack, timeline>>
    \/ /\ WithdrawCall({"t1"}, Preimage, {"A", "B", "C"}, {"malformed"})
       /\ UNCHANGED <<mempool, stack, timeline>>
    \/ /\ ResolveCall({"t1"}, {"A", "B", "C", "K"}, {"A", "B", "C"}, {"malformed"})
       /\ UNCHANGED <<mempool, stack, timeline>>
    \/ /\ RefundCall({"t1"})
       /\ UNCHANGED <<mempool, stack, timeline>>
    \/ /\ Tick
       /\ UNCHANGED <<mempool, stack, timeline>>

Spec == Init /\ [][Next]_vars

\* two trades of different amounts side by side between the same three keys
NextTwo ==
    \/ /\ LockCall({"t1"}, {<<"A", "B", "C">>}, {MaxLockTime}, {0, 1})
       /\ UNCHANGED <<mempool, stack, timeline>>
    \/ /\ LockCall({"t2"}, {<<"A", "B", "C">>}, {MaxLockTime}, {MaxAmount})
       /\ UNCHANGED <<mempool, stack, timeline>>
    \/ /\ WithdrawCall(TradeId, {"p1"}, {"A", "B"}, {})
       /\ UNCHANGED <<mempool, stack, timeline>>
    \/ /\ ResolveCall(TradeId, {"A", "B"}, {"A", "B"}, {})
       /\ UNCHANGED <<mempool, stack, timeline>>
    \/ /\ RefundCall(TradeId)
       /\ UNCHANGED <<mempool, stack, timeline>>
    \/ /\ Tick
       /\ UNCHANGED <<mempool, stack, timeline>>

SpecTwo == Init /\ [][NextTwo]_vars

-----------------------------------------------------------------------------
(* The lock function under every shape of arguments: any two of buyer, seller
   and arbiter the same, a null seller or arbiter, a contract as a party, no
   deposit, a duration that overflows; the trade is then released or
   refunded and its id offered to lock again. *)

LockParties == Parties \cup {<<"A", "B", "A">>, <<"A", "A", "A">>}
LockTimes == {MaxLockTime, UintMax}
LockValues == {0, MaxAmount}

\* lock(t1, seller, arbiter, sha256(p1), lockTime) sent by p[1] with value
LockStep(p, lockTime, value) ==
    Lock("t1", p[1], p[2], p[3], Sha256("p1"), lockTime, value)

NextLock ==
    \/ /\ \E p \in LockParties, lockTime \in LockTimes, value \in LockValues :
              LockStep(p, lockTime, value)
       /\ UNCHANGED <<mempool, stack, timeline>>
    \/ /\ WithdrawCall({"t1"}, {"p1"}, {"A", "B"}, {})
       /\ UNCHANGED <<mempool, stack, timeline>>
    \/ /\ RefundCall({"t1"})
       /\ UNCHANGED <<mempool, stack, timeline>>
    \/ /\ Tick
       /\ UNCHANGED <<mempool, stack, timeline>>

SpecLock == Init /\ [][NextLock]_vars

-----------------------------------------------------------------------------
(* Replay: two trades between the same keys; every call is offered, next to
   the signatures made for it, signatures the same keys made for the other
   function, for the other trade and for the other recipient.  Neither
   function reads the clock, which stands still here. *)

\* the preimages signed for: the secret, and the seller's address as a word
ReplayPreimages == {"p1", "B"}
ReplayKeys == {"A", "B"}

\* the digests of the other messages the keys have signed
ForeignToWithdraw(id, preimage) ==
    {RecipientDigest(id, r) : r \in ReplayKeys}
        \cup {PreimageDigest(OtherTrade(id), preimage)}

ForeignToResolve(id, recipient) ==
    {PreimageDigest(id, p) : p \in ReplayPreimages}
        \cup {RecipientDigest(OtherTrade(id), recipient)}
        \cup {RecipientDigest(id, r) : r \in ReplayKeys \ {recipient}}

\* what a call verifying against messageHash is handed in one slot: the
\* key's signature over it and its signatures over the foreign digests
ReplaySigs(k, messageHash, foreign) ==
    {Sign(k, d) : d \in {messageHash} \cup foreign}

NextReplay ==
    \/ /\ LockCall({"t1"}, {<<"A", "B", "C">>, <<"A", "A", "C">>}, {MaxLockTime},
                   {MaxAmount})
       /\ UNCHANGED <<mempool, stack, timeline>>
    \/ /\ LockCall({"t2"}, {<<"A", "B", "C">>}, {MaxLockTime}, {MaxAmount})
       /\ UNCHANGED <<mempool, stack, timeline>>
    \/ /\ \E id \in TradeId, preimage \in ReplayPreimages :
              \E sig1 \in ReplaySigs("A", PreimageDigest(id, preimage),
                                      ForeignToWithdraw(id, preimage)),
                 sig2 \in ReplaySigs("B", PreimageDigest(id, preimage),
                                      ForeignToWithdraw(id, preimage)) :
                  WithdrawWithPreimage(id, Outsider, preimage, sig1, sig2, TRUE)
       /\ UNCHANGED <<mempool, stack, timeline>>
    \/ /\ \E id \in TradeId, recipient \in ReplayKeys :
              \E sig1 \in ReplaySigs("A", RecipientDigest(id, recipient),
                                      ForeignToResolve(id, recipient)),
                 sig2 \in ReplaySigs("B", RecipientDigest(id, recipient),
                                      ForeignToResolve(id, recipient)) :
                  ResolveDispute(id, Outsider, recipient, sig1, sig2, TRUE)
       /\ UNCHANGED <<mempool, stack, timeline>>

SpecReplay == Init /\ [][NextReplay]_vars

-----------------------------------------------------------------------------
(* Progress: the refund is attempted again and again, by the buyer and by an
   outsider; nothing is assumed about the clock, nor about what the receive
   hook of a contract does with a payment. *)

RefundAttempt ==
    /\ RefundCall({"t1"})
    /\ UNCHANGED <<mempool, stack, timeline>>

NextLive ==
    \/ /\ LockCall({"t1"}, {<<"A", "B", "C">>, <<"K", "B", "C">>}, {0, MaxLockTime},
                   {1, MaxAmount})
       /\ UNCHANGED <<mempool, stack, timeline>>
    \/ /\ WithdrawCall({"t1"}, Preimage, {"A", "B"}, {})
       /\ UNCHANGED <<mempool, stack, timeline>>
    \/ /\ ResolveCall({"t1"}, {"B", "K"}, {"B", "C"}, {})
       /\ UNCHANGED <<mempool, stack, timeline>>
    \/ RefundAttempt
    \/ /\ Tick
       /\ UNCHANGED <<mempool, stack, timeline>>

SpecLive == Init /\ [][NextLive]_vars /\ WF_vars(RefundAttempt)

-----------------------------------------------------------------------------
(* Anyone may send the three releasing calls: the same call is sent by the
   buyer, the seller, the arbiter and an account that is no party *)

AnyCaller == {"A", "B", "C", "D"}
CallerSigs(messageHash) == SigsFor(messageHash, {"A", "B"}, {}, messageHash, messageHash)
CallerRecipients == {"A", "B", "D"}

WithdrawByAnyone ==
    \E caller \in AnyCaller, preimage \in Preimage :
        \E sig1, sig2 \in CallerSigs(PreimageDigest("t1", preimage)) :
            \E accept \in AcceptChoices(trades["t1"].seller) :
                WithdrawWithPreimage("t1", caller, preimage, sig1, sig2, accept)

ResolveByAnyone ==
    \E caller \in AnyCaller, recipient \in CallerRecipients :
        \E sig1, sig2 \in CallerSigs(RecipientDigest("t1", recipient)) :
            \E accept \in AcceptChoices(recipient) :
                ResolveDispute("t1", caller, recipient, sig1, sig2, accept)

RefundByAnyone ==
    \E caller \in AnyCaller :
        \E accept \in AcceptChoices(trades["t1"].buyer) :
            Refund("t1", caller, accept)

NextCaller ==
    \/ /\ LockCall({"t1"}, {<<"A", "B", "C">>, <<"A", "K", "C">>}, {MaxLockTime},
                   {MaxAmount})
       /\ UNCHANGED <<mempool, stack, timeline>>
    \/ /\ WithdrawByAnyone
       /\ UNCHANGED <<mempool, stack, timeline>>
    \/ /\ ResolveByAnyone
       /\ UNCHANGED <<mempool, stack, timeline>>
    \/ /\ RefundByAnyone
       /\ UNCHANGED <<mempool, stack, timeline>>
    \/ /\ Tick
       /\ UNCHANGED <<mempool, stack, timeline>>

SpecCaller == Init /\ [][NextCaller]_vars

-----------------------------------------------------------------------------
(* A payee that rejects the payment: the account K has code whose receive
   hook may revert, as buyer or as seller of the trade; here it also holds
   a key (an account that has delegated to code), so that it can sign the
   preimage withdrawal that pays it *)

NextReject ==
    \/ /\ LockCall({"t1"}, {<<"K", "B", "C">>, <<"A", "K", "C">>}, {MaxLockTime},
                   {MaxAmount})
       /\ UNCHANGED <<mempool, stack, timeline>>
    \/ /\ WithdrawCall({"t1"}, {"p1"}, {"A", "B", "K"}, {})
       /\ UNCHANGED <<mempool, stack, timeline>>
    \/ /\ ResolveCall({"t1"}, {"A", "B", "K"}, {"A", "B", "C"}, {})
       /\ UNCHANGED <<mempool, stack, timeline>>
    \/ /\ RefundCall({"t1"})
       /\ UNCHANGED <<mempool, stack, timeline>>
    \/ /\ Tick
       /\ UNCHANGED <<mempool, stack, timeline>>

SpecReject == Init /\ [][NextReject]_vars

-----------------------------------------------------------------------------
(* The duration given to lock: none, a short one, the largest uint256; the
   lock is sent at every time, the trade is then refunded or withdrawn and
   its id offered to lock again *)

Durations == {0, MaxLockTime, UintMax}
DurationParties == {<<"A", "B", "C">>, <<"K", "B", "C">>}

NextDuration ==
    \/ /\ \E p \in DurationParties, lockTime \in Durations, value \in LockValues :
              LockStep(p, lockTime, value)
       /\ UNCHANGED <<mempool, stack, timeline>>
    \/ /\ WithdrawCall({"t1"}, {"p1"}, {"A", "B"}, {})
       /\ UNCHANGED <<mempool, stack, timeline>>
    \/ /\ RefundCall({"t1"})
       /\ UNCHANGED <<mempool, stack, timeline>>
    \/ /\ Tick
       /\ UNCHANGED <<mempool, stack, timeline>>

SpecDuration == Init /\ [][NextDuration]_vars

-----------------------------------------------------------------------------
(* The timeline of an order: the front end is handed an order in any status,
   paid or not, with or without its timestamps and its recorded transaction
   hashes, and maps it to its stages *)

PaymentInfos ==
    {Absent, [payment_status |-> "pending"],
     [payment_status |-> "paid", paid_at |-> "T0"]}

\* the hashes recorded under blockchain_tx_hashes: any of the three kinds, a
\* kind of no interest to the timeline, an empty string for a hash
TxHashes ==
    {[k \in keys |-> "0xh"] : keys \in SUBSET {"completed", "delivery", "payment"}}
        \cup {[refund |-> "0xh"], [completed |-> ""]}

Metadatas == {Absent} \cup {[blockchain_tx_hashes |-> txs] : txs \in TxHashes}

Orders ==
    {NewOrder(status, payment_info, stamped, metadata) :
        status \in OrderStatus, payment_info \in PaymentInfos,
        stamped \in BOOLEAN, metadata \in Metadatas}

InitTimeline ==
    /\ now = 0
    /\ trades = [id \in TradeId |-> NoTrade]
    /\ balance = 0
    /\ received = [a \in Address |-> 0]
    /\ log = <<>>
    /\ result = NoCall
    /\ pending = {}
    /\ outcomes = <<>>
    /\ guard = "NOT_ENTERED"
    /\ frame = NoFrame
    /\ inner = NoInner
    /\ order \in Orders
    /\ stages = <<>>

\* OrderJourneyTimeline renders the order
Render ==
    /\ stages = <<>>
    /\ stages' = mapOrderStatusToStages(order)
    /\ UNCHANGED <<ledger, mempool, stack, order>>

NextTimeline == Render

SpecTimeline == InitTimeline /\ [][NextTimeline]_vars

-----------------------------------------------------------------------------
(* A race: several senders each send a transaction that resolves the same
   Locked trade, each valid when it is sent; the chain then mines them one
   after the other, in any order. *)

\* a transaction of the race: who sends it, the function, the recipient named
\* (resolveDispute) and the two keys whose signatures it carries
Attempt(caller, op, recipient, first, second) ==
    [caller |-> caller, op |-> op, recipient |-> recipient,
     first |-> first, second |-> second]

Attempts ==
    {Attempt("B", "withdrawWithPreimage", ZeroAddress, "A", "B"),
     Attempt("C", "resolveDispute", "A", "A", "C"),
     Attempt("D", "resolveDispute", "B", "C", "B"),
     Attempt("A", "refund", ZeroAddress, ZeroAddress, ZeroAddress)}

\* how the attempt would end if it ran now
AttemptOutcome(id, a) ==
    IF a.op = "withdrawWithPreimage"
    THEN WithdrawOutcome(trades[id], id, "p1",
                         Sign(a.first, PreimageDigest(id, "p1")),
                         Sign(a.second, PreimageDigest(id, "p1")), TRUE)
    ELSE IF a.op = "resolveDispute"
    THEN ResolveOutcome(trades[id], id, a.recipient,
                        Sign(a.first, RecipientDigest(id, a.recipient)),
                        Sign(a.second, RecipientDigest(id, a.recipient)), TRUE)
    ELSE RefundOutcome(trades[id], now, TRUE)

\* the transaction is sent while everything it needs holds
Submit(id, a) ==
    /\ a \notin pending
    /\ AttemptOutcome(id, a) = "ok"
    /\ pending' = pending \cup {a}
    /\ UNCHANGED <<ledger, outcomes, stack, timeline>>

\* the transaction is mined
Run(id, a) ==
    /\ a \in pending
    /\ IF a.op = "withdrawWithPreimage"
       THEN WithdrawWithPreimage(id, a.caller, "p1",
                                 Sign(a.first, PreimageDigest(id, "p1")),
                                 Sign(a.second, PreimageDigest(id, "p1")), TRUE)
       ELSE IF a.op = "resolveDispute"
       THEN ResolveDispute(id, a.caller, a.recipient,
                           Sign(a.first, RecipientDigest(id, a.recipient)),
                           Sign(a.second, RecipientDigest(id, a.recipient)), TRUE)
       ELSE Refund(id, a.caller, TRUE)
    /\ pending' = pending \ {a}
    /\ outcomes' = Append(outcomes, [op |-> a.op, err |-> result'.err])
    /\ UNCHANGED <<stack, timeline>>

NextRace ==
    \/ /\ LockCall({"t1"}, {<<"A", "B", "C">>}, {0, MaxLockTime}, {MaxAmount})
       /\ UNCHANGED <<mempool, stack, timeline>>
    \/ \E a \in Attempts : Submit("t1", a)
    \/ \E a \in Attempts : Run("t1", a)
    \/ Tick /\ UNCHANGED <<mempool, stack, timeline>>

SpecRace == Init /\ [][NextRace]_vars

-----------------------------------------------------------------------------
(* Inside one transaction: a release function runs up to its transfer, the
   payee's receive hook runs (and may call back into the contract), then the
   transfer returns and the function finishes, or the transfer reverts and the
   transaction is undone. *)

\* faulty variant: the functions carry no nonReentrant modifier
GuardErrorOff == "ok"

\* nonReentrant, on entry: a call made while another is under way reverts
GuardError == IF guard = "ENTERED" THEN "ReentrancyGuardReentrantCall" ELSE "ok"

\* faulty variant: the status write is put off until the transfer has returned
CommitAfterTransfer(id, status) == trades

\* trade.status = Status.Completed / Status.Refunded, written before the transfer
Commit(id, status) == [trades EXCEPT ![id].status = status]

\* the checks have passed: the guard is taken, the status is written and
\* payable(to).transfer(trade.amount) is issued
Begin(op, id, caller, status, to, signers) ==
    /\ guard' = "ENTERED"
    /\ trades' = Commit(id, status)
    /\ frame' = [op |-> op, id |-> id, caller |-> caller, to |-> to,
                 status |-> status, signers |-> signers]
    /\ inner' = NoInner
    /\ UNCHANGED <<now, balance, received, log, result, mempool, timeline>>

EnterWithdraw(id, caller, preimage, sig1, sig2) ==
    LET t == trades[id]
        err == IF GuardError # "ok" THEN GuardError
               ELSE WithdrawError(t, id, preimage, sig1, sig2)
        messageHash == PreimageDigest(id, preimage)
        signers == IF err \in BeforeRecover \cup {"ReentrancyGuardReentrantCall"}
                   THEN <<>>
                   ELSE <<Recover(messageHash, sig1), Recover(messageHash, sig2)>>
    IN  /\ frame = NoFrame
        /\ IF err # "ok"
           THEN Reverted("withdrawWithPreimage", id, caller, err, signers)
                /\ UNCHANGED <<mempool, stack, timeline>>
           ELSE Begin("withdrawWithPreimage", id, caller, "Completed", t.seller, signers)

EnterResolve(id, caller, recipient, sig1, sig2) ==
    LET t == trades[id]
        err == IF GuardError # "ok" THEN GuardError
               ELSE ResolveError(t, id, recipient, sig1, sig2)
        messageHash == RecipientDigest(id, recipient)
        signers == IF err \in BeforeRecover \cup {"ReentrancyGuardReentrantCall"}
                   THEN <<>>
                   ELSE <<Recover(messageHash, sig1), Recover(messageHash, sig2)>>
    IN  /\ frame = NoFrame
        /\ IF err # "ok"
           THEN Reverted("resolveDispute", id, caller, err, signers)
                /\ UNCHANGED <<mempool, stack, timeline>>
           ELSE Begin("resolveDispute", id, caller, "Completed", recipient, signers)

EnterRefund(id, caller) ==
    LET t == trades[id]
        err == IF GuardError # "ok" THEN GuardError ELSE RefundError(t, now)
    IN  /\ frame = NoFrame
        /\ IF err # "ok"
           THEN Reverted("refund", id, caller, err, <<>>)
                /\ UNCHANGED <<mempool, stack, timeline>>
           ELSE Begin("refund", id, caller, "Refunded", t.buyer, <<>>)

\* how a call of op on trade id made by the payee from its receive hook ends,
\* with the best arguments there are (the preimage and the signatures of the
\* trade's own parties): the guard first, then the function's checks
InnerError(op, id) ==
    LET t == trades[id]
    IN  IF GuardError # "ok" THEN GuardError
        ELSE IF op = "withdrawWithPreimage"
        THEN WithdrawError(t, id, "p1", Sign(t.buyer, PreimageDigest(id, "p1")),
                           Sign(t.seller, PreimageDigest(id, "p1")))
        ELSE IF op = "resolveDispute"
        THEN ResolveError(t, id, t.buyer, Sign(t.seller, RecipientDigest(id, t.buyer)),
                          Sign(t.arbiter, RecipientDigest(id, t.buyer)))
        ELSE RefundError(t, now)

\* the payee is a contract: its receive hook calls back into the contract
Reenter(op, id) ==
    /\ frame # NoFrame
    /\ frame.to \in ContractAddr
    /\ inner' = [op |-> op, id |-> id, err |-> InnerError(op, id)]
    /\ UNCHANGED <<ledger, mempool, guard, frame, timeline>>

\* the event of the release function under way
FrameEvent ==
    IF frame.op = "refund" THEN RefundedEvent(frame.id, frame.to)
    ELSE WithdrawnEvent(frame.id, frame.to,
                        IF frame.op = "withdrawWithPreimage"
                        THEN "Preimage + MultiSig" ELSE "Arbitration")

\* the transfer returns and the function runs to its end (the event, the
\* guard released), or the transfer reverts and with it the whole transaction
Finish(accept) ==
    /\ frame # NoFrame
    /\ IF TransferOk(frame.to, accept)
       THEN /\ trades' = [trades EXCEPT ![frame.id].status = frame.status]
            /\ balance' = balance - trades[frame.id].amount
            /\ received' = [received EXCEPT ![frame.to] = @ + trades[frame.id].amount]
            /\ log' = Append(log, FrameEvent)
            /\ result' = Call(frame.op, frame.id, frame.caller, "ok", frame.signers)
       ELSE /\ trades' = [trades EXCEPT ![frame.id].status = "Locked"]
            /\ result' = Call(frame.op, frame.id, frame.caller, "Transfer failed",
                              frame.signers)
            /\ UNCHANGED <<balance, received, log>>
    /\ guard' = "NOT_ENTERED"
    /\ frame' = NoFrame
    /\ UNCHANGED <<now, inner, mempool, timeline>>

ReleaseOps == {"withdrawWithPreimage", "resolveDispute", "refund"}

NextStack ==
    \/ /\ frame = NoFrame
       /\ LockCall({"t1"}, {<<"K", "B", "C">>, <<"A", "K", "C">>}, {0}, {1})
       /\ UNCHANGED <<mempool, stack, timeline>>
    \/ /\ frame = NoFrame
       /\ LockCall({"t2"}, {<<"A", "B", "C">>}, {0}, {MaxAmount})
       /\ UNCHANGED <<mempool, stack, timeline>>
    \/ \E id \in TradeId, keys \in {<<"A", "B">>} :
           EnterWithdraw(id, Outsider, "p1", Sign(keys[1], PreimageDigest(id, "p1")),
                         Sign(keys[2], PreimageDigest(id, "p1")))
    \/ \E id \in TradeId, recipient \in {"K"},
          keys \in {<<"A", "C">>, <<"B", "C">>} :
           EnterResolve(id, Outsider, recipient,
                        Sign(keys[1], RecipientDigest(id, recipient)),
                        Sign(keys[2], RecipientDigest(id, recipient)))
    \/ \E id \in TradeId : EnterRefund(id, Outsider)
    \/ \E op \in ReleaseOps, id \in TradeId : Reenter(op, id)
    \/ \E accept \in AcceptChoices(frame.to) : Finish(accept)
    \/ frame = NoFrame /\ Tick /\ UNCHANGED <<mempool, stack, timeline>>

SpecStack == Init /\ [][NextStack]_vars

-----------------------------------------------------------------------------
(* Helpers of the properties *)

RECURSIVE SumOver(_, _)
\* the sum of f[x] over the finite set S
SumOver(f, S) ==
    IF S = {} THEN 0
    ELSE LET x == CHOOSE y \in S : TRUE IN f[x] + SumOver(f, S \ {x})

AmountOf == [id \in TradeId |-> trades[id].amount]
WithStatus(statuses) == {id \in TradeId : trades[id].status \in statuses}

\* the payout events of trade id in the log
Payouts(id) ==
    {i \in 1..Len(log) : log[i].tradeId = id /\ log[i].name \in {"Withdrawn", "Refunded"}}

Terminal == {"Completed", "Refunded"}

\* every signature a withdrawWithPreimage(id, preimage) may be handed
WithdrawSigs(id, preimage) ==
    SigsFor(PreimageDigest(id, preimage), EOA, {"malformed", "purpose", "trade"},
            RecipientDigest(id, trades[id].seller),
            PreimageDigest(OtherTrade(id), preimage))

\* every signature a resolveDispute(id, recipient) may be handed
ResolveSigs(id, recipient) ==
    SigsFor(RecipientDigest(id, recipient), EOA, {"malformed", "purpose", "trade"},
            PreimageDigest(id, "p1"),
            RecipientDigest(OtherTrade(id), recipient))

Participants(t) == {t.buyer, t.seller, t.arbiter}

-----------------------------------------------------------------------------
(* C1: the status of every trade only ever steps Uninitialized -> Locked,
   Locked -> Completed or Locked -> Refunded; it never moves backward, never
   leaves Completed or Refunded, and a trade has at most one payout event. *)

StatusStep(a, b) ==
    \/ a = b
    \/ a = "Uninitialized" /\ b = "Locked"
    \/ a = "Locked" /\ b \in Terminal

\* C1: every status step is a step of the lifecycle, and no trade is paid twice
C1_StatusOneShot ==
    /\ [][\A id \in TradeId : StatusStep(trades[id].status, trades'[id].status)]_vars
    /\ [](\A id \in TradeId : Cardinality(Payouts(id)) <= 1)

\* a refund attempted on a trade that was completed before: it is turned away
C1_Witness ==
    /\ trades["t1"].status = "Completed"
    /\ result.op = "refund" /\ result.err = "Invalid status"
    /\ now >= trades["t1"].timelock

-----------------------------------------------------------------------------
(* C2: value conservation.  The contract's balance is the sum of the amounts
   of the Locked trades, the total paid out is the sum of the amounts of the
   Completed and Refunded trades, and a trade is paid out exactly once when it
   is terminal and never otherwise. *)

C2_ValueConservation ==
    /\ balance = SumOver(AmountOf, WithStatus({"Locked"}))
    /\ SumOver(received, Address) = SumOver(AmountOf, WithStatus(Terminal))
    /\ \A id \in TradeId :
        Cardinality(Payouts(id)) = IF trades[id].status \in Terminal THEN 1 ELSE 0

\* one trade paid out while the other, of another amount, is still held
C2_Witness ==
    /\ trades["t1"].status = "Completed" /\ trades["t2"].status = "Locked"
    /\ trades["t1"].amount # trades["t2"].amount
    /\ balance = trades["t2"].amount

-----------------------------------------------------------------------------
(* C3: the step that makes a trade terminal pays out exactly the deposited
   amount, in one transfer, to exactly one recipient: the seller on
   withdrawWithPreimage, the recipient named on resolveDispute, the buyer on
   refund; the contract's balance drops by that amount. *)

Payee(id) ==
    IF result'.op = "withdrawWithPreimage" THEN trades[id].seller
    ELSE IF result'.op = "refund" THEN trades[id].buyer
    ELSE log'[Len(log')].recipient

\* C3: the terminal step is one transfer of the whole amount to the one payee
C3_PaysInFullOnce ==
    [][\A id \in TradeId :
        (trades[id].status = "Locked" /\ trades'[id].status \in Terminal) =>
            /\ result'.op \in {"withdrawWithPreimage", "resolveDispute", "refund"}
            /\ result'.id = id /\ result'.err = "ok"
            /\ received' = [received EXCEPT ![Payee(id)] = @ + trades[id].amount]
            /\ balance' = balance - trades[id].amount
            /\ trades[id].amount > 0
            /\ Payee(id) \in {trades[id].buyer, trades[id].seller}]_vars

\* an arbitration decided by seller and arbiter that paid the buyer in full
C3_Witness ==
    /\ result.op = "resolveDispute" /\ result.err = "ok"
    /\ trades["t1"].status = "Completed"
    /\ trades["t1"].buyer # trades["t1"].seller
    /\ received[trades["t1"].buyer] = trades["t1"].amount
    /\ received[trades["t1"].seller] = 0
    /\ balance = 0

-----------------------------------------------------------------------------
(* C4: a withdrawWithPreimage that got as far as recovering its two signers
   (the trade Locked, the preimage hashing to hashLock) and was not stopped
   by the payee goes through iff the two recovered signers, as an unordered
   pair, are exactly {buyer, seller}. *)

\* the last call recovered two signers
Recovered(op) == result.op = op /\ result.signers # <<>>

\* C4: success iff the recovered pair is exactly {buyer, seller}
C4_WithdrawIffBuyerAndSeller ==
    (Recovered("withdrawWithPreimage") /\ result.err # "Transfer failed") =>
        LET t == trades[result.id]
        IN  (result.err = "ok") <=>
                ({result.signers[1], result.signers[2]} = {t.buyer, t.seller}
                    /\ result.signers[1] # result.signers[2])

-----------------------------------------------------------------------------
(* C5: for every trade lock accepted, withdrawWithPreimage fails whenever both
   signatures recover to the same identity, even with the correct preimage. *)

C5_SameSignerTwiceFails ==
    (Recovered("withdrawWithPreimage") /\ result.signers[1] = result.signers[2])
        => result.err # "ok"

-----------------------------------------------------------------------------
(* C6: on a Locked trade, with recipient in {buyer, seller}, resolveDispute
   succeeds iff the two recovered signers are two distinct identities that
   both belong to {buyer, seller, arbiter}. *)

TwoDistinctParticipants(t, h, sig1, sig2) ==
    /\ sig1.wellFormed /\ sig2.wellFormed
    /\ Recover(h, sig1) # Recover(h, sig2)
    /\ Recover(h, sig1) \in Participants(t)
    /\ Recover(h, sig2) \in Participants(t)

\* the signers the last call recovered are two distinct participants
TwoDistinctRecovered(t) ==
    /\ result.signers[1] # result.signers[2]
    /\ {result.signers[1], result.signers[2]} \subseteq Participants(t)

-----------------------------------------------------------------------------
(* C7: resolveDispute never succeeds when both signatures recover to the same
   identity, whatever the roles' addresses are and whichever recipient is
   named; on a Locked trade with a permitted recipient it fails with
   "Need 2-of-3 signatures" (InsufficientDistinctSignatures). *)

C7_SamePartyTwiceFails ==
    /\ (Recovered("resolveDispute") /\ result.signers[1] = result.signers[2])
            => result.err = "Need 2-of-3 signatures"
    /\ \A id \in TradeId, recipient \in Address, accept \in BOOLEAN :
        \A sig1, sig2 \in ResolveSigs(id, recipient) :
            LET t == trades[id]
                h == RecipientDigest(id, recipient)
                out == ResolveOutcome(t, id, recipient, sig1, sig2, accept)
            IN  (sig1.wellFormed /\ sig2.wellFormed /\ Recover(h, sig1) = Recover(h, sig2))
                => /\ out # "ok"
                   /\ (t.status = "Locked" /\ recipient \in {t.buyer, t.seller})
                        => out = "Need 2-of-3 signatures"

\* the party that is both seller and arbiter signed twice and was turned away
C7_Witness ==
    /\ result.op = "resolveDispute" /\ result.err = "Need 2-of-3 signatures"
    /\ trades["t1"].status = "Locked"
    /\ trades["t1"].seller = trades["t1"].arbiter
    /\ result.signers = <<trades["t1"].seller, trades["t1"].seller>>

-----------------------------------------------------------------------------
(* C8: on a Locked trade with three distinct principals resolveDispute
   succeeds for each of the signer pairs (buyer, arbiter), (seller, arbiter)
   and (buyer, seller), in either order, for either permitted recipient. *)

DistinctPrincipals(t) ==
    t.buyer # t.seller /\ t.buyer # t.arbiter /\ t.seller # t.arbiter

\* how resolveDispute ends on the signatures of keys x and y over (id, recipient)
ResolveBy(id, recipient, x, y, accept) ==
    ResolveOutcome(trades[id], id, recipient,
                   Sign(x, RecipientDigest(id, recipient)),
                   Sign(y, RecipientDigest(id, recipient)), accept)

-----------------------------------------------------------------------------
(* C9: resolveDispute with a recipient that is neither the trade's buyer nor
   its seller never succeeds, whatever signatures come with it; on a Locked
   trade it fails with "Invalid recipient", and the failed call changes
   nothing. *)

C9_InvalidRecipient ==
    /\ [](\A id \in TradeId, recipient \in Address, accept \in BOOLEAN :
            \A sig1, sig2 \in ResolveSigs(id, recipient) :
                LET t == trades[id]
                    out == ResolveOutcome(t, id, recipient, sig1, sig2, accept)
                IN  recipient \notin {t.buyer, t.seller} =>
                        /\ out # "ok"
                        /\ t.status = "Locked" => out = "Invalid recipient")
    /\ [][(result' # result /\ result'.op = "resolveDispute"
            /\ result'.err = "Invalid recipient")
          => /\ UNCHANGED <<trades, balance, received, log>>
             /\ trades[result'.id].status = "Locked"]_vars

\* the arbiter was named as recipient of a Locked trade between three distinct
\* principals, for which buyer and seller can sign: the call was turned away
C9_Witness ==
    /\ result.op = "resolveDispute" /\ result.err = "Invalid recipient"
    /\ trades["t1"].status = "Locked"
    /\ DistinctPrincipals(trades["t1"])
    /\ balance = trades["t1"].amount
    /\ ResolveError(trades["t1"], "t1", trades["t1"].arbiter,
                    Sign(trades["t1"].buyer, RecipientDigest("t1", trades["t1"].arbiter)),
                    Sign(trades["t1"].seller, RecipientDigest("t1", trades["t1"].arbiter)))
         = "Invalid recipient"

-----------------------------------------------------------------------------
(* C10: refund succeeds iff the trade is Locked and now >= timelock, equality
   included; before expiry it fails with "Timelock not expired" for every
   caller; on success the trade becomes Refunded and the amount goes to the
   buyer. *)

-----------------------------------------------------------------------------
(* C11: when several callers race to resolve the same Locked trade with
   withdrawWithPreimage, resolveDispute and refund attempts, each of them
   valid when sent, then in every order of execution exactly one attempt
   succeeds, the first to run, and every attempt that runs after it fails with
   "Invalid status"; the trade is paid out once. *)

-----------------------------------------------------------------------------
(* C12: in withdrawWithPreimage, resolveDispute and refund the terminal status
   is written before the transfer is issued: while a transfer is under way the
   trade it pays is already Completed or Refunded, never Locked, and no call
   made by the payee during the transfer succeeds, so the deposit is paid at
   most once. *)

C12_CommittedBeforeTransfer ==
    /\ frame # NoFrame =>
        /\ trades[frame.id].status = frame.status
        /\ frame.status \in Terminal
        /\ guard = "ENTERED"
    /\ inner.op # "none" => inner.err # "ok"
    /\ \A id \in TradeId : Cardinality(Payouts(id)) <= 1

\* the arbitration of t1 is paying the contract K, whose hook has just tried to
\* take the refund of that very trade and was turned away
C12_Witness ==
    /\ frame.op = "resolveDispute" /\ frame.id = "t1" /\ frame.to = "K"
    /\ inner.op = "refund" /\ inner.id = "t1" /\ inner.err # "ok"
    /\ trades["t1"].status = "Completed"

-----------------------------------------------------------------------------
(* C13: every operation is all-or-nothing: a call of lock,
   withdrawWithPreimage, resolveDispute or refund that fails, for whatever
   reason, leaves every trade record, the funds held by the contract, what
   every principal has received and the event log exactly as they were. *)

C13_AllOrNothing ==
    [][result' # result /\ result'.err # "ok"
       => UNCHANGED <<trades, balance, received, log>>]_vars

\* an arbitration that had passed every check failed in its transfer: the
\* trade is still Locked and its deposit still held
C13_Witness ==
    /\ result.op = "resolveDispute" /\ result.err = "Transfer failed"
    /\ trades["t1"].status = "Locked"
    /\ balance = trades["t1"].amount
    /\ Payouts("t1") = {}

-----------------------------------------------------------------------------
(* C14: a trade id is locked at most once: a lock on an id whose trade is
   Locked, Completed or Refunded fails, leaves the record as it is and takes
   no deposit; the log never holds two Locked events of one id. *)

Lockings(id) == {i \in 1..Len(log) : log[i].tradeId = id /\ log[i].name = "Locked"}

C14_LockedAtMostOnce ==
    /\ [][result' # result /\ result'.op = "lock"
            /\ trades[result'.id].status # "Uninitialized"
          => /\ result'.err # "ok"
             /\ UNCHANGED <<trades, balance, received, log>>]_vars
    /\ [](\A id \in TradeId : Cardinality(Lockings(id)) <= 1)
    /\ [][\A id \in TradeId :
            trades[id].status # "Uninitialized" =>
                /\ trades'[id].buyer = trades[id].buyer
                /\ trades'[id].seller = trades[id].seller
                /\ trades'[id].arbiter = trades[id].arbiter
                /\ trades'[id].amount = trades[id].amount
                /\ trades'[id].hashLock = trades[id].hashLock
                /\ trades'[id].timelock = trades[id].timelock]_vars

\* a lock on the id of a trade that was refunded before is turned away
C14_Witness ==
    /\ result.op = "lock" /\ result.id = "t1"
    /\ result.err = "Trade ID already exists"
    /\ trades["t1"].status = "Refunded"
    /\ balance = 0

-----------------------------------------------------------------------------
(* C15, as stated: a lock on the id of an existing trade fails with "Trade ID
   already exists" whatever its deposit, seller, arbiter, hash lock and
   duration are. *)

C15_Original ==
    [][\A p \in LockParties, lockTime \in LockTimes, value \in LockValues :
          LockStep(p, lockTime, value) /\ trades["t1"].status # "Uninitialized"
          => result'.err = "Trade ID already exists"]_vars

(* C15, amended: a lock on the id of an existing trade that carries a positive
   deposit fails with "Trade ID already exists" whatever its seller, arbiter,
   hash lock and duration are; one that carries no deposit fails with "Amount
   must be greater than 0". *)

C15_DuplicateUnlessZero ==
    [][\A p \in LockParties, lockTime \in LockTimes, value \in LockValues :
          LockStep(p, lockTime, value) /\ trades["t1"].status # "Uninitialized"
          => /\ result'.err = IF value > 0 THEN "Trade ID already exists"
                              ELSE "Amount must be greater than 0"
             /\ UNCHANGED <<trades, balance, received, log>>]_vars

\* a second lock on the id of a trade that is still Locked is turned away as a
\* duplicate
C15_Witness ==
    /\ result.op = "lock" /\ result.err = "Trade ID already exists"
    /\ trades["t1"].status = "Locked"
    /\ Cardinality(Lockings("t1")) = 1

-----------------------------------------------------------------------------
(* C16: a lock that carries no deposit fails with "Amount must be greater than
   0", whether its trade id is fresh or already used and whatever its seller
   and arbiter are, and creates no trade. *)

C16_ZeroDeposit ==
    [][\A p \in LockParties, lockTime \in LockTimes :
          LockStep(p, lockTime, 0)
          => /\ result'.err = "Amount must be greater than 0"
             /\ UNCHANGED <<trades, balance, received, log>>]_vars

\* a lock without deposit on the id of a completed trade fails for its amount
C16_Witness ==
    /\ result.op = "lock" /\ result.err = "Amount must be greater than 0"
    /\ trades["t1"].status = "Completed"

-----------------------------------------------------------------------------
(* C17: withdrawWithPreimage, resolveDispute and refund on a trade that is not
   Locked (never locked, Completed or Refunded) fail with "Invalid status",
   whatever the preimage, the recipient, the signatures and the time are; the
   status check comes before every other check. *)

C17_InvalidStatusFirst ==
    /\ [][result' # result /\ result'.op \in ReleaseOps
            /\ trades[result'.id].status # "Locked"
          => /\ result'.err = "Invalid status"
             /\ UNCHANGED <<trades, balance, received, log>>]_vars
    /\ [](\A id \in TradeId : trades[id].status # "Locked" =>
            /\ \A accept \in BOOLEAN :
                   RefundOutcome(trades[id], now, accept) = "Invalid status"
            /\ \A preimage \in Preimage, accept \in BOOLEAN :
                   \A sig1, sig2 \in WithdrawSigs(id, preimage) :
                       WithdrawOutcome(trades[id], id, preimage, sig1, sig2, accept)
                           = "Invalid status"
            /\ \A recipient \in Address, accept \in BOOLEAN :
                   \A sig1, sig2 \in ResolveSigs(id, recipient) :
                       ResolveOutcome(trades[id], id, recipient, sig1, sig2, accept)
                           = "Invalid status")

\* a preimage withdrawal on an id that was never locked, and one on a trade
\* refunded before, are turned away for the status
C17_Witness ==
    /\ result.op = "withdrawWithPreimage" /\ result.err = "Invalid status"
    /\ trades[result.id].status \in {"Uninitialized", "Refunded"}

-----------------------------------------------------------------------------
(* C18, as stated: a successful lock on a fresh id creates the record (buyer =
   the caller, the given seller, arbiter and hash lock, amount = the deposit,
   timelock = the current time + the duration, status Locked), takes custody
   of exactly the deposit and emits one Locked event that carries those
   fields, the arbiter among them. *)

C18_Original ==
    [][\A p \in LockParties, lockTime \in LockTimes, value \in LockValues :
          LockStep(p, lockTime, value) /\ result'.err = "ok"
          => /\ trades["t1"].status = "Uninitialized"
             /\ trades'["t1"] =
                    [buyer |-> p[1], seller |-> p[2], arbiter |-> p[3],
                     amount |-> value, hashLock |-> Sha256("p1"),
                     timelock |-> now + lockTime, status |-> "Locked"]
             /\ balance' = balance + value
             /\ log' = Append(log,
                    [name |-> "Locked", tradeId |-> "t1", buyer |-> p[1],
                     seller |-> p[2], arbiter |-> p[3], amount |-> value,
                     hashLock |-> Sha256("p1"), timelock |-> now + lockTime])]_vars

(* C18, amended: a successful lock on a fresh id creates the record (buyer =
   the caller, the given seller, arbiter and hash lock, amount = the deposit,
   timelock = the current time + the duration, status Locked), takes custody
   of exactly the deposit and emits one Locked event that carries the trade
   id, the buyer, the seller, the amount, the hash lock and the timelock; the
   event does not carry the arbiter. *)

C18_LockCreatesTrade ==
    [][\A p \in LockParties, lockTime \in LockTimes, value \in LockValues :
          LockStep(p, lockTime, value) /\ result'.err = "ok"
          => /\ trades["t1"].status = "Uninitialized"
             /\ trades'["t1"] =
                    [buyer |-> p[1], seller |-> p[2], arbiter |-> p[3],
                     amount |-> value, hashLock |-> Sha256("p1"),
                     timelock |-> now + lockTime, status |-> "Locked"]
             /\ value > 0
             /\ balance' = balance + value
             /\ received' = received
             /\ log' = Append(log,
                    [name |-> "Locked", tradeId |-> "t1", buyer |-> p[1],
                     seller |-> p[2], amount |-> value,
                     hashLock |-> Sha256("p1"), timelock |-> now + lockTime])
             /\ DOMAIN log'[Len(log')] =
                    {"name", "tradeId", "buyer", "seller", "amount", "hashLock",
                     "timelock"}]_vars

\* a lock sent at time 1: the contract holds the deposit, the trade is Locked
\* until time 1 + MaxLockTime and the log ends with its Locked event
C18_Witness ==
    /\ result.op = "lock" /\ result.err = "ok"
    /\ now = 1
    /\ trades["t1"].status = "Locked"
    /\ trades["t1"].timelock = 1 + MaxLockTime
    /\ balance = trades["t1"].amount
    /\ log[Len(log)].name = "Locked"

-----------------------------------------------------------------------------
(* C19: a lock with a positive deposit on a fresh id fails with "Invalid
   addresses" when the seller or the arbiter is the null address, and creates
   no trade; no stored trade has a null buyer, seller or arbiter. *)

C19_NoNullParty ==
    /\ [][\A p \in LockParties, lockTime \in LockTimes, value \in LockValues :
            /\ LockStep(p, lockTime, value)
            /\ value > 0
            /\ trades["t1"].status = "Uninitialized"
            /\ (p[2] = ZeroAddress \/ p[3] = ZeroAddress)
            => /\ result'.err = "Invalid addresses"
               /\ UNCHANGED <<trades, balance, received, log>>]_vars
    /\ [](\A id \in TradeId : trades[id].status # "Uninitialized" =>
            /\ trades[id].buyer # ZeroAddress
            /\ trades[id].seller # ZeroAddress
            /\ trades[id].arbiter # ZeroAddress)

\* a lock that names a null party was turned away on the fresh id
C19_Witness ==
    /\ result.op = "lock" /\ result.err = "Invalid addresses"
    /\ trades["t1"].status = "Uninitialized"
    /\ balance = 0

-----------------------------------------------------------------------------
(* C20: lock is rejected when the seller or the arbiter it names is the
   caller: in every stored trade the seller and the arbiter both differ from
   the buyer. *)

C20_PartiesDifferFromBuyer ==
    \A id \in TradeId : trades[id].status # "Uninitialized" =>
        /\ trades[id].seller # trades[id].buyer
        /\ trades[id].arbiter # trades[id].buyer

-----------------------------------------------------------------------------
(* C21: once a trade is locked its buyer, seller, arbiter, amount, hash lock
   and timelock never change, whatever is called later, the terminal
   transition included; its record is never deleted and its status never goes
   back to Uninitialized. *)

Fixed(t) == <<t.buyer, t.seller, t.arbiter, t.amount, t.hashLock, t.timelock>>

C21_RecordImmutable ==
    [][\A id \in TradeId :
          trades[id].status # "Uninitialized" =>
              /\ Fixed(trades'[id]) = Fixed(trades[id])
              /\ trades'[id].status # "Uninitialized"
              /\ trades'[id] # NoTrade]_vars

\* a trade that was paid out still holds what its Locked event announced
C21_Witness ==
    /\ trades["t1"].status \in Terminal
    /\ Payouts("t1") # {}
    /\ log[1].name = "Locked"
    /\ trades["t1"].buyer = log[1].buyer
    /\ trades["t1"].amount = log[1].amount /\ trades["t1"].amount > 0
    /\ trades["t1"].timelock = log[1].timelock

-----------------------------------------------------------------------------
(* C22: a signature made over the preimage-path digest of a trade never counts
   in resolveDispute, and a signature made over the arbitration-path digest
   never counts in withdrawWithPreimage: the signer recovered from it is no
   party of the trade, a resolveDispute carrying one fails, and so does a
   withdrawWithPreimage carrying one unless the other signature alone stands
   for buyer and seller. *)

PreimagePath(d) ==
    \E i \in TradeId, p \in ReplayPreimages : d = PreimageDigest(i, p)
ArbitrationPath(d) ==
    \E i \in TradeId, r \in Address : d = RecipientDigest(i, r)

C22_NoCrossPurposeReplay ==
    \A id \in TradeId :
        LET t == trades[id]
        IN  /\ \A recipient \in ReplayKeys :
                 LET h == RecipientDigest(id, recipient)
                 IN  \A sig1 \in ReplaySigs("A", h, ForeignToResolve(id, recipient)),
                        sig2 \in ReplaySigs("B", h, ForeignToResolve(id, recipient)) :
                         /\ \A sig \in {sig1, sig2} : PreimagePath(sig.digest) =>
                                Recover(h, sig) \notin Participants(t)
                         /\ PreimagePath(sig1.digest) \/ PreimagePath(sig2.digest) =>
                                ResolveOutcome(t, id, recipient, sig1, sig2, TRUE) # "ok"
            /\ \A preimage \in ReplayPreimages :
                 LET h == PreimageDigest(id, preimage)
                 IN  \A sig1 \in ReplaySigs("A", h, ForeignToWithdraw(id, preimage)),
                        sig2 \in ReplaySigs("B", h, ForeignToWithdraw(id, preimage)) :
                         /\ \A sig \in {sig1, sig2} : ArbitrationPath(sig.digest) =>
                                Recover(h, sig) \notin Participants(t)
                         /\ /\ ArbitrationPath(sig1.digest) \/ ArbitrationPath(sig2.digest)
                            /\ t.buyer # t.seller
                            => WithdrawOutcome(t, id, preimage, sig1, sig2, TRUE) # "ok"

\* a withdrawal that passed the preimage check on a Locked trade between
\* distinct parties recovered no party from either slot, and failed
C22_Witness ==
    /\ result.op = "withdrawWithPreimage"
    /\ result.err = "Missing required signatures from buyer and seller"
    /\ result.signers = <<Garbage, Garbage>>
    /\ trades[result.id].status = "Locked"
    /\ trades[result.id].buyer # trades[result.id].seller

-----------------------------------------------------------------------------
(* C23: signatures are bound to the trade and to the outcome they were made
   for: a signature made for the other trade between the same principals, or
   for the other recipient, never counts; a resolveDispute carrying one fails,
   and so does a withdrawWithPreimage carrying one unless the other signature
   alone stands for buyer and seller. *)

C23_BoundToTradeAndRecipient ==
    \A id \in TradeId :
        LET t == trades[id]
        IN  /\ \A recipient \in ReplayKeys :
                 LET h == RecipientDigest(id, recipient)
                     elsewhere == {RecipientDigest(OtherTrade(id), recipient)}
                         \cup {RecipientDigest(id, r) : r \in ReplayKeys \ {recipient}}
                 IN  \A sig1 \in ReplaySigs("A", h, ForeignToResolve(id, recipient)),
                        sig2 \in ReplaySigs("B", h, ForeignToResolve(id, recipient)) :
                         /\ \A sig \in {sig1, sig2} : sig.digest \in elsewhere =>
                                Recover(h, sig) \notin Participants(t)
                         /\ sig1.digest \in elsewhere \/ sig2.digest \in elsewhere =>
                                ResolveOutcome(t, id, recipient, sig1, sig2, TRUE) # "ok"
            /\ \A preimage \in ReplayPreimages :
                 LET h == PreimageDigest(id, preimage)
                     elsewhere == {PreimageDigest(OtherTrade(id), preimage)}
                 IN  \A sig1 \in ReplaySigs("A", h, ForeignToWithdraw(id, preimage)),
                        sig2 \in ReplaySigs("B", h, ForeignToWithdraw(id, preimage)) :
                         /\ \A sig \in {sig1, sig2} : sig.digest \in elsewhere =>
                                Recover(h, sig) \notin Participants(t)
                         /\ /\ sig1.digest \in elsewhere \/ sig2.digest \in elsewhere
                            /\ t.buyer # t.seller
                            => WithdrawOutcome(t, id, preimage, sig1, sig2, TRUE) # "ok"

\* trade t1 was settled by arbitration; an arbitration of t2, Locked between
\* the same three keys, recovered no party from either slot, and failed
C23_Witness ==
    /\ trades["t1"].status = "Completed"
    /\ \E i \in Payouts("t1") : log[i].method = "Arbitration"
    /\ Fixed(trades["t1"]) = Fixed(trades["t2"])
    /\ trades["t2"].status = "Locked"
    /\ result.op = "resolveDispute" /\ result.id = "t2"
    /\ result.err = "Need 2-of-3 signatures"
    /\ result.signers = <<Garbage, Garbage>>

-----------------------------------------------------------------------------
(* C24: withdrawWithPreimage and resolveDispute handed a malformed signature
   in either slot fail in ECDSA.recover, even when the other signature, the
   preimage and the recipient are valid, and leave the trade Locked with its
   deposit in custody. *)

C24_MalformedSignature ==
    /\ [](\A id \in TradeId :
            LET t == trades[id]
            IN  t.status = "Locked" =>
                /\ \A preimage \in {p \in Preimage : Sha256(p) = t.hashLock},
                      accept \in BOOLEAN :
                       \A sig \in WithdrawSigs(id, preimage) :
                           /\ WithdrawOutcome(t, id, preimage, Malformed, sig, accept)
                                  = "ECDSAInvalidSignature"
                           /\ WithdrawOutcome(t, id, preimage, sig, Malformed, accept)
                                  = "ECDSAInvalidSignature"
                /\ \A recipient \in {t.buyer, t.seller}, accept \in BOOLEAN :
                       \A sig \in ResolveSigs(id, recipient) :
                           /\ ResolveOutcome(t, id, recipient, Malformed, sig, accept)
                                  = "ECDSAInvalidSignature"
                           /\ ResolveOutcome(t, id, recipient, sig, Malformed, accept)
                                  = "ECDSAInvalidSignature")
    /\ [][result' # result /\ result'.err = "ECDSAInvalidSignature"
          => /\ result'.op \in {"withdrawWithPreimage", "resolveDispute"}
             /\ trades[result'.id].status = "Locked"
             /\ UNCHANGED <<trades, balance, received, log>>]_vars

\* an arbitration was handed a malformed signature: the trade is still Locked
\* and its deposit still held
C24_Witness ==
    /\ result.op = "resolveDispute" /\ result.err = "ECDSAInvalidSignature"
    /\ trades["t1"].status = "Locked"
    /\ balance = trades["t1"].amount /\ balance > 0
    /\ Payouts("t1") = {}

-----------------------------------------------------------------------------
(* C25, as stated: for every Locked trade, once the time has reached the
   timelock a refund by any caller succeeds, so if refund keeps being
   attempted the trade reaches a terminal state and its deposit leaves the
   contract. *)

Expired(id) == trades[id].status = "Locked" /\ now >= trades[id].timelock
Settled(id) == trades[id].status \in Terminal /\ Payouts(id) # {}

-----------------------------------------------------------------------------
(* C26, as stated: a successful withdrawWithPreimage emits exactly one
   Withdrawn(trade id, seller, method = "preimage"), a successful
   resolveDispute exactly one Withdrawn(trade id, recipient, method =
   "arbitration"), a successful refund exactly one Refunded(trade id, buyer). *)

\* the release call of this step succeeded
Released(op) == result' # result /\ result'.op = op /\ result'.err = "ok"

\* who was paid in this step
PaidNow == {r \in Address : received'[r] # received[r]}

EmitsWithdrawn(op, method) ==
    Released(op) =>
        \E r \in PaidNow :
            log' = Append(log, [name |-> "Withdrawn", tradeId |-> result'.id,
                                recipient |-> r, method |-> method])

EmitsRefunded ==
    Released("refund") =>
        log' = Append(log, [name |-> "Refunded", tradeId |-> result'.id,
                            recipient |-> trades[result'.id].buyer])

C26_Original ==
    [][/\ EmitsWithdrawn("withdrawWithPreimage", "preimage")
       /\ EmitsWithdrawn("resolveDispute", "arbitration")
       /\ EmitsRefunded]_vars

(* C26, amended: a successful withdrawWithPreimage emits exactly one
   Withdrawn(trade id, seller, method = "Preimage + MultiSig"), a successful
   resolveDispute exactly one Withdrawn(trade id, recipient, method =
   "Arbitration"), a successful refund exactly one Refunded(trade id, buyer);
   the recipient named is the one paid. *)

C26_OneEventPerRelease ==
    [][/\ EmitsWithdrawn("withdrawWithPreimage", "Preimage + MultiSig")
       /\ Released("withdrawWithPreimage") => PaidNow = {trades[result'.id].seller}
       /\ EmitsWithdrawn("resolveDispute", "Arbitration")
       /\ EmitsRefunded
       /\ Released("refund") => PaidNow = {trades[result'.id].buyer}
       /\ \A op \in ReleaseOps : Released(op) => Cardinality(PaidNow) = 1]_vars

\* a preimage withdrawal went through: the log holds the Locked event and,
\* after it, one Withdrawn event naming the seller
C26_Witness ==
    /\ result.op = "withdrawWithPreimage" /\ result.err = "ok"
    /\ Len(log) = 2
    /\ log[2] = [name |-> "Withdrawn", tradeId |-> "t1",
                 recipient |-> trades["t1"].seller, method |-> "Preimage + MultiSig"]

-----------------------------------------------------------------------------
(* C27, as stated: refund is accepted only when the block timestamp is greater
   than the timelock; at the instant the two are equal it is not yet
   accepted. *)

-----------------------------------------------------------------------------
(* C28, as stated: on a Locked trade withdrawWithPreimage and resolveDispute
   with valid arguments succeed, before the timelock and after it. *)

SignedWithdraw(id, accept) ==
    LET t == trades[id]
        h == PreimageDigest(id, "p1")
    IN  WithdrawOutcome(t, id, "p1", Sign(t.buyer, h), Sign(t.seller, h), accept)

\* how an arbitration for the recipient signed by the keys x and y ends
SignedResolve(id, recipient, x, y, accept) ==
    LET h == RecipientDigest(id, recipient)
    IN  ResolveOutcome(trades[id], id, recipient, Sign(x, h), Sign(y, h), accept)

PaidOrRejected(to, accept) == IF TransferOk(to, accept) THEN "ok" ELSE "Transfer failed"

-----------------------------------------------------------------------------
(* C29: whoever received the deposit of a trade is that trade's buyer or its
   seller: a Refunded trade paid its buyer, a Completed trade its seller or
   its buyer, and an arbiter who is neither of them is never paid. *)

\* the recipients named by the payout events of trade id
PaidOf(id) == {log[i].recipient : i \in Payouts(id)}

C29_PaidBuyerOrSeller ==
    /\ \A id \in TradeId :
        LET t == trades[id]
        IN  /\ PaidOf(id) \subseteq {t.buyer, t.seller}
            /\ t.status = "Refunded" => PaidOf(id) = {t.buyer}
            /\ t.status = "Completed" => Cardinality(PaidOf(id)) = 1
            /\ t.status \notin Terminal => PaidOf(id) = {}
            /\ t.arbiter \notin {t.buyer, t.seller} => t.arbiter \notin PaidOf(id)
    /\ \A a \in Address :
        received[a] > 0 => \E id \in TradeId : a \in PaidOf(id)

\* an arbitration signed by the arbiter sent the deposit back to the buyer;
\* the arbiter, a third party, has received nothing
C29_Witness ==
    /\ trades["t1"].status = "Completed"
    /\ PaidOf("t1") = {trades["t1"].buyer}
    /\ trades["t1"].arbiter \notin {trades["t1"].buyer, trades["t1"].seller}
    /\ result.op = "resolveDispute" /\ result.err = "ok"
    /\ \E i \in DOMAIN result.signers : result.signers[i] = trades["t1"].arbiter
    /\ received[trades["t1"].arbiter] = 0
    /\ received[trades["t1"].buyer] = trades["t1"].amount

-----------------------------------------------------------------------------
(* C30: the outcome of withdrawWithPreimage, resolveDispute and refund does
   not depend on who sends the call: the same call, in the same state, sent
   by any two accounts, succeeds or fails alike, leaves the trade in the same
   status and pays the same recipient. *)

\* what one call is observed to do
Succeeds == result'.err = "ok"
Leaves(id, status) == trades'[id].status = status
Pays(id, a) ==
    /\ log' # log
    /\ log'[Len(log')].recipient = a
    /\ received' = [received EXCEPT ![a] = @ + trades[id].amount]
PaysNobody == log' = log /\ received' = received /\ balance' = balance

\* what a call may be seen to do to trade id
Observable(id) ==
    {<<"succeeds">>, <<"pays nobody">>}
        \cup {<<"leaves", status>> :
                status \in {"Uninitialized", "Locked", "Completed", "Refunded"}}
        \cup {<<"pays", a>> : a \in Address}

Observed(id, o) ==
    CASE o[1] = "succeeds" -> Succeeds
      [] o[1] = "pays nobody" -> PaysNobody
      [] o[1] = "leaves" -> Leaves(id, o[2])
      [] o[1] = "pays" -> Pays(id, o[2])

\* the call Op(caller) does what the same call sent by the outsider does
CallerBlind(Op(_), id) ==
    \A o \in Observable(id) :
        LET byOutsider == ENABLED (Op(Outsider) /\ Observed(id, o))
        IN  \A caller \in AnyCaller \ {Outsider} :
                (ENABLED (Op(caller) /\ Observed(id, o))) <=> byOutsider

C30_CallerIndependent ==
    /\ \A preimage \in Preimage :
        \A sig1, sig2 \in CallerSigs(PreimageDigest("t1", preimage)) :
            \A accept \in AcceptChoices(trades["t1"].seller) :
                LET Op(c) == WithdrawWithPreimage("t1", c, preimage, sig1, sig2, accept)
                IN  CallerBlind(Op, "t1")
    /\ \A recipient \in CallerRecipients :
        \A sig1, sig2 \in CallerSigs(RecipientDigest("t1", recipient)) :
            \A accept \in AcceptChoices(recipient) :
                LET Op(c) == ResolveDispute("t1", c, recipient, sig1, sig2, accept)
                IN  CallerBlind(Op, "t1")
    /\ \A accept \in AcceptChoices(trades["t1"].buyer) :
        LET Op(c) == Refund("t1", c, accept)
        IN  CallerBlind(Op, "t1")

\* an account that is no party had the expired deposit refunded: it went to
\* the buyer, the caller received nothing
C30_Witness ==
    /\ result.op = "refund" /\ result.err = "ok"
    /\ result.caller = Outsider
    /\ Outsider \notin Participants(trades["t1"])
    /\ trades["t1"].status = "Refunded"
    /\ received[Outsider] = 0
    /\ received[trades["t1"].buyer] = trades["t1"].amount

-----------------------------------------------------------------------------
(* C31: every operation on trade id T, successful or not, leaves the record
   of every other trade id unchanged and leaves in custody the full amount
   of every other Locked trade. *)

\* the trade ids other than id that are Locked after the step
OtherLocked(id) == {o \in TradeId \ {id} : trades'[o].status = "Locked"}

C31_OtherTradesUntouched ==
    [][result' # result =>
        LET id == result'.id
        IN  /\ \A o \in TradeId \ {id} : trades'[o] = trades[o]
            /\ balance' >= SumOver(AmountOf, OtherLocked(id))
            /\ \A o \in OtherLocked(id) : Payouts(o)' = {}]_vars

\* trade t1 was refunded while t2, Locked with a deposit, stays whole in
\* custody
C31_Witness ==
    /\ result.id = "t1" /\ result.op = "refund" /\ result.err = "ok"
    /\ trades["t1"].status = "Refunded" /\ trades["t1"].amount > 0
    /\ trades["t2"].status = "Locked" /\ trades["t2"].amount > 0
    /\ balance = trades["t2"].amount

-----------------------------------------------------------------------------
(* C32: when the transfer of a withdrawWithPreimage, resolveDispute or refund
   fails because the recipient rejects the payment, the whole operation
   fails: the trade is Locked as before, its funds are still held, no event
   is emitted, and the trade can still be resolved by another path. *)

\* a successful release of the trade of the last call by another function
\* than the last call's
OtherPath ==
    /\ NextReject
    /\ result'.err = "ok"
    /\ result'.id = result.id
    /\ result'.op \in ReleaseOps \ {result.op}

C32_FailedTransferRollsBack ==
    /\ [][result' # result /\ result'.err = "Transfer failed" =>
            /\ result'.op \in ReleaseOps
            /\ trades' = trades
            /\ trades'[result'.id].status = "Locked"
            /\ balance' = balance /\ balance' >= trades'[result'.id].amount
            /\ received' = received
            /\ log' = log]_vars
    /\ [](result.err = "Transfer failed" => ENABLED OtherPath)

\* a preimage withdrawal signed by buyer and seller was rejected by the
\* seller's receive hook: the trade is Locked, the deposit held, and the
\* only event is that of the lock
C32_Witness ==
    /\ result.op = "withdrawWithPreimage" /\ result.err = "Transfer failed"
    /\ trades["t1"].status = "Locked"
    /\ trades["t1"].seller \in ContractAddr
    /\ balance = trades["t1"].amount /\ balance > 0
    /\ received[trades["t1"].seller] = 0
    /\ Len(log) = 1 /\ log[1].name = "Locked"

-----------------------------------------------------------------------------
(* C33: the re-entrancy guard is one for all trades and is always released:
   while the transfer of one operation is under way, no withdrawWithPreimage,
   resolveDispute or refund on any trade id can succeed, and once the
   operation has returned, with success or with a failure, the guard is free
   and no later call is turned away by it. *)

Reentrant == "ReentrancyGuardReentrantCall"

C33_GuardSharedAndReleased ==
    /\ frame # NoFrame <=> guard = "ENTERED"
    /\ frame # NoFrame =>
        \A op \in ReleaseOps, id \in TradeId : InnerError(op, id) = Reentrant
    /\ inner.op # "none" => inner.err = Reentrant
    /\ frame = NoFrame => GuardError = "ok"
    /\ result.err # Reentrant

\* while the refund of t1 is paying the contract K, K's hook asked for the
\* refund of the other trade, which is Locked and expired, and was turned away
\* by the guard alone
C33_Witness ==
    /\ frame.op = "refund" /\ frame.id = "t1" /\ frame.to = "K"
    /\ inner.op = "refund" /\ inner.id = "t2" /\ inner.err = Reentrant
    /\ trades["t2"].status = "Locked"
    /\ RefundError(trades["t2"], now) = "ok"

-----------------------------------------------------------------------------
(* C34: the timelock of every stored trade is the time of its lock plus the
   duration, computed without wraparound, hence no earlier than the time of
   the lock; a lock whose time plus duration exceeds the range of uint256
   fails and creates no trade; a lock with duration 0 yields a trade whose
   refund is open at once. *)

-----------------------------------------------------------------------------
(* C35: lock accepts a trade whose seller and arbiter are the same identity,
   and on such a trade resolveDispute never succeeds without the buyer's
   signature: the party that holds both roles counts as one signer. *)

C35_SellerArbiterOneSigner ==
    /\ \A x \in Address \ {ZeroAddress} :
        LockError(NoTrade, MaxAmount, x, x, 0, now) = "ok"
    /\ (/\ result.op = "resolveDispute" /\ result.err = "ok"
        /\ trades[result.id].seller = trades[result.id].arbiter)
            => \E i \in 1..2 : result.signers[i] = trades[result.id].buyer
    /\ \A id \in TradeId, recipient \in Address, accept \in BOOLEAN :
        \A sig1, sig2 \in ResolveSigs(id, recipient) :
            LET t == trades[id]
                h == RecipientDigest(id, recipient)
            IN  (/\ t.seller = t.arbiter
                 /\ ResolveOutcome(t, id, recipient, sig1, sig2, accept) = "ok")
                => t.buyer \in {Recover(h, sig1), Recover(h, sig2)}

\* a trade whose seller is also its arbiter was locked and then settled by
\* the signatures of the buyer and of that party
C35_Witness ==
    /\ result.op = "resolveDispute" /\ result.err = "ok"
    /\ trades["t1"].status = "Completed"
    /\ trades["t1"].seller = trades["t1"].arbiter
    /\ trades["t1"].buyer # trades["t1"].seller
    /\ {result.signers[1], result.signers[2]} = {trades["t1"].buyer, trades["t1"].seller}

-----------------------------------------------------------------------------
(* C36: mapOrderStatusToStages marks the merchant_accepted stage COMPLETED
   exactly when the order's status is ACCEPTED or a later status of the
   order flow (ACCEPTED, PROCESSING, DELIVERED, COMPLETED), and PENDING
   otherwise. *)

StageOf(id) == CHOOSE st \in {stages[i] : i \in DOMAIN stages} : st.stage_id = id

C36_AcceptedOrLater ==
    stages # <<>> =>
        StageOf("merchant_accepted").status =
            IF order.status \in {"ACCEPTED", "PROCESSING", "DELIVERED", "COMPLETED"}
            THEN StageCompleted ELSE StagePending

-----------------------------------------------------------------------------
(* C37: mapOrderStatusToStages always returns the six stages of ORDER_STAGES
   in their order; among merchant_accepted, order_delivered, order_confirmed
   and on_chain a later stage is COMPLETED only if every earlier one of them
   is; on_chain is COMPLETED only for a COMPLETED order that has at least one
   recorded blockchain transaction hash. *)

StatusDriven == 3..6

C37_StagesInOrder ==
    stages # <<>> =>
        /\ Len(stages) = 6
        /\ \A i \in 1..6 : stages[i].stage_id = ORDER_STAGES[i].stage_id
        /\ \A i, j \in StatusDriven :
            (i < j /\ stages[j].status = StageCompleted)
                => stages[i].status = StageCompleted
        /\ stages[6].status = StageCompleted =>
            /\ order.status = "COMPLETED"
            /\ \E k \in DOMAIN blockchainTxs(order) :
                blockchainTxs(order)[k] \notin {"", Undefined, Null}

\* a COMPLETED order with a recorded delivery hash: all four status-driven
\* stages are COMPLETED
C37_Witness ==
    /\ stages # <<>>
    /\ order.status = "COMPLETED"
    /\ Get(blockchainTxs(order), "delivery") = "0xh"
    /\ \A i \in StatusDriven : stages[i].status = StageCompleted

====
